---- MODULE Spec2Model ----
(***************************************************************************)
(* Track extraction loop of Tracking_Software.py.                          *)
(*                                                                         *)
(* The program keeps five parallel lists describing the tracks in flight   *)
(* (len_buffer, area_buffer, frame_buffer, mean_buffer, seen) and three    *)
(* parallel output lists (len_abs, area_abs, frames_abs).  Every frame of  *)
(* the video is reduced here to what the loop body reads from it: the list *)
(* of label ids 1..num, each either filtered out (no pixel left after      *)
(* remove_border_tracks) or present with a centroid, a length and an area. *)
(* Centroids and lengths are floats in the program; the model draws them   *)
(* from integer grids.  Quotients are kept as fractions in lowest terms.   *)
(*                                                                         *)
(* Besides the program's variables the model carries history variables     *)
(* (hist, nid, id_buffer, obs_buffer, id_abs, obs_abs, gone_abs, removed,  *)
(* snap):                                                                  *)
(* they record what happened and never influence the program's variables.  *)
(*                                                                         *)
(* The start-up (train_bkg, the frame count test) and the two array        *)
(* functions denoise and remove_border_tracks have specifications of their *)
(* own (SpecRun, SpecImg) over the same variables.                         *)
(***************************************************************************)
EXTENDS Integers, Sequences, FiniteSets, TLC

VARIABLES
    framebuff,          \* opt.framebuff
    meanshift_length,   \* opt.meanshift
    pix_per_cm,         \* opt.convert
    denoise_thresh,     \* opt.denoise_thresh
    count,              \* frames of the video: cap.get(cv2.CAP_PROP_FRAME_COUNT)
    nticks,             \* final_frame - current_frame: iterations of the frame loop
    tick,               \* iterations of the frame loop completed
    pc,                 \* "start" | "setup" | "read" | "assoc" | "evict" | "done",
                        \* "crashed" | "noframes" when the run has failed
    labels,             \* label ids of the current frame still to be visited
    evict,              \* indices of the eviction loop still to be visited
    len_buffer, area_buffer, frame_buffer, mean_buffer, seen,
    len_abs, area_abs, frames_abs,
    image,              \* the array handed to denoise or remove_border_tracks
    result,             \* the array it returned
    fn,                 \* "none"; "mask" | "clusters": what the array is;
                        \* "denoise" | "remove_border_tracks": what was applied
    hist,               \* history: frames read so far
    nid,                \* history: number of tracks created so far
    id_buffer,          \* history: serial number of each track in the store
    obs_buffer,         \* history: regions that created or matched each track
    id_abs,             \* history: serial number of the track behind each record
    obs_abs,            \* history: observations of the track behind each record
    gone_abs,           \* history: loop iteration that emitted each record
    removed,            \* history: every track deleted from the store
    snap                \* history: the store when the eviction loop started

vars == <<framebuff, meanshift_length, pix_per_cm, denoise_thresh, count,
          nticks, tick, pc, labels,
          evict, len_buffer, area_buffer, frame_buffer, mean_buffer, seen,
          len_abs, area_abs, frames_abs, image, result, fn, hist, nid, id_buffer, obs_buffer,
          id_abs, obs_abs, gone_abs, removed, snap>>

opts == <<framebuff, meanshift_length, pix_per_cm, denoise_thresh, count, nticks>>
arrays == <<image, result, fn>>
store == <<len_buffer, area_buffer, frame_buffer, mean_buffer, seen>>
output == <<len_abs, area_abs, frames_abs>>
storeHist == <<id_buffer, obs_buffer>>
outputHist == <<id_abs, obs_abs, gone_abs>>

----------------------------------------------------------------------------
(* Bounds *)

MaxFrames == 4
MaxFramesScn == 6
MaxFramesBatch == 3
MaxFramesConv == 5
MaxTail == 6
MaxPix == 3

----------------------------------------------------------------------------
(* Helpers *)

RECURSIVE GCD(_, _)
GCD(a, b) == IF b = 0 THEN a ELSE GCD(b, a % b)

\* floor division: the quotient of integers as an integer
Ratio_Floor(n, d) == <<n \div d, 1>>

\* n/d as a fraction in lowest terms (d > 0)
Ratio(n, d) == LET g == GCD(n, d) IN <<n \div g, d \div g>>

\* del buf[idx + 1]: the entry after the one meant
RemoveAt_Next(s, i) == SubSeq(s, 1, i) \o SubSeq(s, i + 2, Len(s))

\* del buf[idx]
RemoveAt(s, i) == SubSeq(s, 1, i - 1) \o SubSeq(s, i + 1, Len(s))

SetMax(S) == CHOOSE m \in S : \A x \in S : x <= m

\* SetMin, Ascending and Range serve the properties below
SetMin(S) == CHOOSE m \in S : \A x \in S : m <= x

RECURSIVE Ascending(_)
Ascending(S) == IF S = {} THEN <<>>
                ELSE LET m == SetMin(S) IN <<m>> \o Ascending(S \ {m})

Range(s) == {s[i] : i \in 1..Len(s)}

RECURSIVE Descending(_)
Descending(S) == IF S = {} THEN <<>>
                 ELSE LET m == SetMax(S) IN <<m>> \o Descending(S \ {m})

\* squared Euclidean distance of two centroids
Dist2(a, b) == (a[1] - b[1]) * (a[1] - b[1]) + (a[2] - b[2]) * (a[2] - b[2])

\* the comparison of line 142 reversed
Near_Reversed(val, mean) ==
    /\ meanshift_length > 0
    /\ Dist2(val, mean) > meanshift_length * meanshift_length

\* distance.euclidean(val, mean) < meanshift_length
Near(val, mean) ==
    /\ meanshift_length > 0
    /\ Dist2(val, mean) < meanshift_length * meanshift_length

\* indices idx of mean_buffer for which the test of the scan succeeds
Matches(mean) == {i \in 1..Len(mean_buffer) : Near(mean_buffer[i], mean)}

\* the index list of line 162 without the reversal
UnseenAsc == Ascending({i \in 1..Len(seen) : seen[i] = 0})

\* np.where(np.array(seen) == 0)[0][::-1]
UnseenDesc == Descending({i \in 1..Len(seen) : seen[i] = 0})

\* the tests of lines 117 and 126 left out: every frame runs the eviction loop
NoTracksLeft_Never(f) == FALSE

\* np.all(clusters == 0), or np.all(mask_proc == 0) when there is no label
NoTracksLeft(f) == \A i \in 1..Len(f) : ~f[i].present

\* the test of line 134 left out
HasPixels_Always(lab) == TRUE

\* line 134: np.shape(idxs)[1] is not 0
HasPixels(lab) == lab.present

Region(m, l, a) == [present |-> TRUE, mean |-> m, length |-> l, area |-> a]
Filtered == [present |-> FALSE, mean |-> <<0, 0>>, length |-> 0, area |-> 0]

Obs(r) == [frame |-> tick + 1, length |-> r.length, area |-> r.area]

----------------------------------------------------------------------------
(* Inputs *)

P0 == <<0, 0>>
P1 == <<3, 0>>
P2 == <<3, 4>>
PF == <<9, 9>>

FramesGeneral ==
    { <<>>,
      <<Region(P0, 10, 100)>>,
      <<Region(P1, 40, 80)>>,
      <<Region(PF, 25, 150)>>,
      <<Region(P0, 10, 100), Region(P2, 25, 150)>>,
      <<Region(P0, 40, 80), Region(P1, 10, 100)>>,
      <<Filtered, Region(P2, 40, 150)>>,
      <<Filtered>> }

FramesScn ==
    { <<>>,
      <<Region(P0, 10, 100)>>,
      <<Region(P1, 40, 80)>>,
      <<Filtered, Region(P2, 25, 150)>>,
      <<Region(PF, 50, 600)>> }

FramesConv ==
    { <<>>,
      <<Region(P0, 120, 14400)>>,
      <<Filtered, Region(P1, 60, 3600)>>,
      <<Region(PF, 60, 3600)>>,
      <<Region(PF, 50, 600)>> }

Q(k) == <<10 * k, 0>>
Q3(k) == <<10 * k + 3, 0>>

FramesBatch ==
    { <<>>,
      <<Region(Q(1), 11, 101), Region(Q(2), 12, 102), Region(Q(3), 13, 103),
        Region(Q(4), 14, 104), Region(Q(5), 15, 105)>>,
      <<Region(Q3(1), 21, 91), Region(Q3(3), 23, 93)>>,
      <<Region(Q(2), 12, 102), Filtered, Region(Q(4), 14, 104), Region(Q(5), 15, 105)>>,
      <<Region(Q3(5), 25, 95), Region(Q(0), 10, 100)>> }

----------------------------------------------------------------------------
(* Initial state: lines 73-105 *)

\* line 88: the frames read by train_bkg
TrainFrames == 1000

\* the state after line 105 of a run that got there: the options come from the
\* sets FB, MS, PPC; the loop of line 108 makes final_frame - current_frame
\* iterations, at most N here
InitWith(FB, MS, PPC, N) ==
    /\ framebuff \in FB
    /\ meanshift_length \in MS
    /\ pix_per_cm \in PPC
    /\ denoise_thresh = 500
    /\ nticks \in 0..N
    /\ count = TrainFrames + nticks + 1
    /\ tick = 0
    /\ pc = "read"
    /\ image = <<>>
    /\ result = <<>>
    /\ fn = "none"
    /\ labels = <<>>
    /\ evict = <<>>
    /\ len_buffer = <<>>
    /\ area_buffer = <<>>
    /\ frame_buffer = <<>>
    /\ mean_buffer = <<>>
    /\ seen = <<>>
    /\ len_abs = <<>>
    /\ area_abs = <<>>
    /\ frames_abs = <<>>
    /\ hist = <<>>
    /\ nid = 0
    /\ id_buffer = <<>>
    /\ obs_buffer = <<>>
    /\ id_abs = <<>>
    /\ obs_abs = <<>>
    /\ gone_abs = <<>>
    /\ removed = <<>>
    /\ snap = <<<<>>, <<>>, <<>>, <<>>, <<>>, <<>>>>

----------------------------------------------------------------------------
(* The frame loop: lines 108-173 *)

\* lines 109-127: a frame without foreground is skipped
SkipFrame(F) ==
    /\ pc = "read"
    /\ tick < nticks
    /\ \E f \in F :
        /\ NoTracksLeft(f)
        /\ hist' = Append(hist, f)
    /\ tick' = tick + 1
    /\ UNCHANGED <<opts, arrays, pc, labels, evict, store, output, nid, storeHist,
                   outputHist, removed, snap>>

\* the flags reset by emptying the list
ResetSeen_Empty(s) == <<>>

\* line 130: seen[:len(seen)] = [0] * len(seen)
ResetSeen(s) == [i \in 1..Len(s) |-> 0]

\* lines 109-130: a frame with foreground resets the seen flags
ReadFrame(F) ==
    /\ pc = "read"
    /\ tick < nticks
    /\ \E f \in F :
        /\ ~NoTracksLeft(f)
        /\ hist' = Append(hist, f)
        /\ labels' = f
    /\ seen' = ResetSeen(seen)
    /\ pc' = "assoc"
    /\ UNCHANGED <<opts, arrays, tick, evict, len_buffer, area_buffer, frame_buffer,
                   mean_buffer, output, nid, storeHist, outputHist, removed, snap>>

\* lines 133-135: a label without pixels is passed over
SkipLabel ==
    /\ pc = "assoc"
    /\ labels # <<>>
    /\ ~HasPixels(Head(labels))
    /\ labels' = Tail(labels)
    /\ UNCHANGED <<opts, arrays, tick, pc, evict, store, output, hist, nid, storeHist,
                   outputHist, removed, snap>>

\* the last value kept instead of the maximum
RunningMax_Last(cur, new) == new

\* lines 148-151: only the maximum is kept
RunningMax(cur, new) == IF new > cur THEN new ELSE cur

\* lines 140-151: the assignments of the scan, made at every index that passes
\* the test of line 142 (the scan has no break)
Updated(buf, new) ==
    [i \in 1..Len(buf) |-> IF i \in DOMAIN new THEN new[i] ELSE buf[i]]

\* lines 136-151: the region matches at least one stored centroid
MatchTracks ==
    /\ pc = "assoc"
    /\ labels # <<>>
    /\ HasPixels(Head(labels))
    /\ LET r == Head(labels)
           M == Matches(r.mean)
       IN  /\ M # {}
           /\ frame_buffer' = Updated(frame_buffer, [i \in M |-> frame_buffer[i] + 1])
           /\ seen' = Updated(seen, [i \in M |-> 1])
           /\ mean_buffer' = Updated(mean_buffer, [i \in M |-> r.mean])
           /\ len_buffer' = Updated(len_buffer,
                                [i \in M |-> RunningMax(len_buffer[i], r.length)])
           /\ area_buffer' = Updated(area_buffer,
                                 [i \in M |-> RunningMax(area_buffer[i], r.area)])
           /\ obs_buffer' = Updated(obs_buffer,
                                [i \in M |-> Append(obs_buffer[i], Obs(r))])
    /\ labels' = Tail(labels)
    /\ UNCHANGED <<opts, arrays, tick, pc, evict, output, hist, nid, id_buffer,
                   outputHist, removed, snap>>

\* lines 136-158: the region matches no stored centroid and starts a track
NewTrack ==
    /\ pc = "assoc"
    /\ labels # <<>>
    /\ HasPixels(Head(labels))
    /\ LET r == Head(labels)
       IN  /\ Matches(r.mean) = {}
           /\ seen' = Append(seen, 1)
           /\ frame_buffer' = Append(frame_buffer, 1)
           /\ mean_buffer' = Append(mean_buffer, r.mean)
           /\ len_buffer' = Append(len_buffer, r.length)
           /\ area_buffer' = Append(area_buffer, r.area)
           /\ id_buffer' = Append(id_buffer, nid + 1)
           /\ obs_buffer' = Append(obs_buffer, <<Obs(r)>>)
    /\ nid' = nid + 1
    /\ labels' = Tail(labels)
    /\ UNCHANGED <<opts, arrays, tick, pc, evict, output, hist, outputHist, removed, snap>>

\* line 162: the indices of the unseen tracks, highest first
BeginEvict ==
    /\ pc = "assoc"
    /\ labels = <<>>
    /\ evict' = UnseenDesc
    /\ snap' = <<len_buffer, area_buffer, frame_buffer, mean_buffer, seen,
                 id_buffer>>
    /\ pc' = "evict"
    /\ UNCHANGED <<opts, arrays, tick, labels, store, output, hist, nid, storeHist,
                   outputHist, removed>>

\* the comparison of line 164 made non-strict
Reported_AtLeast(idx) == frame_buffer[idx] >= framebuff

\* line 164
Reported(idx) == frame_buffer[idx] > framebuff

\* a record put in front of the list instead of behind it
Emit_InFront(out, x) == <<x>> \o out

\* lines 165-167: list.append
Emit(out, x) == Append(out, x)

\* lines 162-173 for one index
EvictOne ==
    /\ pc = "evict"
    /\ evict # <<>>
    /\ LET idx == Head(evict)
       IN  /\ IF Reported(idx)
              THEN /\ frames_abs' = Emit(frames_abs, frame_buffer[idx])
                   /\ len_abs' = Emit(len_abs, Ratio(len_buffer[idx], pix_per_cm))
                   /\ area_abs' = Emit(area_abs,
                                    Ratio(area_buffer[idx], pix_per_cm * pix_per_cm))
                   /\ id_abs' = Emit(id_abs, id_buffer[idx])
                   /\ obs_abs' = Emit(obs_abs, obs_buffer[idx])
                   /\ gone_abs' = Emit(gone_abs, tick + 1)
              ELSE UNCHANGED <<output, outputHist>>
           /\ len_buffer' = RemoveAt(len_buffer, idx)
           /\ seen' = RemoveAt(seen, idx)
           /\ mean_buffer' = RemoveAt(mean_buffer, idx)
           /\ area_buffer' = RemoveAt(area_buffer, idx)
           /\ frame_buffer' = RemoveAt(frame_buffer, idx)
           /\ id_buffer' = RemoveAt(id_buffer, idx)
           /\ obs_buffer' = RemoveAt(obs_buffer, idx)
           /\ removed' = Append(removed,
                            [id |-> id_buffer[idx], frames |-> frame_buffer[idx],
                             obs |-> obs_buffer[idx], tick |-> tick + 1,
                             before |-> Len(frames_abs),
                             after |-> Len(frames_abs')])
    /\ evict' = Tail(evict)
    /\ UNCHANGED <<opts, arrays, tick, pc, labels, hist, nid, snap>>

\* end of the loop body: next iteration
EndFrame ==
    /\ pc = "evict"
    /\ evict = <<>>
    /\ tick' = tick + 1
    /\ pc' = "read"
    /\ UNCHANGED <<opts, arrays, labels, evict, store, output, hist, nid, storeHist,
                   outputHist, removed, snap>>

\* the end of the loop if it swept the store into the output as well
Finish_Flush ==
    /\ pc = "read"
    /\ tick = nticks
    /\ pc' = "done"
    /\ frames_abs' = frames_abs \o frame_buffer
    /\ len_abs' = len_abs \o [i \in 1..Len(len_buffer) |-> Ratio(len_buffer[i], pix_per_cm)]
    /\ area_abs' = area_abs \o [i \in 1..Len(area_buffer) |->
                                   Ratio(area_buffer[i], pix_per_cm * pix_per_cm)]
    /\ id_abs' = id_abs \o id_buffer
    /\ obs_abs' = obs_abs \o obs_buffer
    /\ gone_abs' = gone_abs \o [i \in 1..Len(id_buffer) |-> tick]
    /\ UNCHANGED <<opts, arrays, tick, labels, evict, store, hist, nid,
                   storeHist, removed, snap>>

\* lines 175-176: the loop is over and the records are written
Finish ==
    /\ pc = "read"
    /\ tick = nticks
    /\ pc' = "done"
    /\ UNCHANGED <<opts, arrays, tick, labels, evict, store, output, hist, nid,
                   storeHist, outputHist, removed, snap>>

Step(F) ==
    \/ SkipFrame(F)
    \/ ReadFrame(F)
    \/ SkipLabel
    \/ MatchTracks
    \/ NewTrack
    \/ BeginEvict
    \/ EvictOne
    \/ EndFrame
    \/ Finish

\* frames of at most two labels around one place: P0-P1 and P1-P2 are nearer
\* than 5, P0-P2 are exactly 5 apart, PF is far from all
Init == InitWith({1, 2}, {5}, {100}, MaxFrames)
Next == Step(FramesGeneral)
Spec == Init /\ [][Next]_vars

\* frames of one region: an object that drifts P0, P1, P2 with changing size,
\* and an object that rests at PF
InitScn == InitWith({1}, {5}, {100}, MaxFramesScn)
NextScn == Step(FramesScn)
SpecScn == InitScn /\ [][NextScn]_vars

\* frames of one region, with 100 and with 120 pixels per cm
InitConv == InitWith({1}, {5}, {100, 120}, MaxFramesConv)
NextConv == Step(FramesConv)
SpecConv == InitConv /\ [][NextConv]_vars

\* frames of up to five regions that lie far from each other
InitBatch == InitWith({0, 1}, {5}, {100}, MaxFramesBatch)
NextBatch == Step(FramesBatch)
SpecBatch == InitBatch /\ [][NextBatch]_vars

----------------------------------------------------------------------------
(* The start-up: lines 80-105, for a video file that exists *)

\* frame counts of the videos: none, one, and around the training length
Counts == {0, 1} \cup ((TrainFrames - 1)..(TrainFrames + MaxTail))

FramesRun ==
    { <<>>,
      <<Region(P0, 20, 200)>>,
      <<Filtered, Region(PF, 50, 600)>> }

InitRun ==
    /\ framebuff = 1
    /\ meanshift_length = 5
    /\ pix_per_cm = 100
    /\ denoise_thresh = 500
    /\ count \in Counts
    /\ nticks = 0
    /\ tick = 0
    /\ pc = "start"
    /\ image = <<>>
    /\ result = <<>>
    /\ fn = "none"
    /\ labels = <<>>
    /\ evict = <<>>
    /\ len_buffer = <<>>
    /\ area_buffer = <<>>
    /\ frame_buffer = <<>>
    /\ mean_buffer = <<>>
    /\ seen = <<>>
    /\ len_abs = <<>>
    /\ area_abs = <<>>
    /\ frames_abs = <<>>
    /\ hist = <<>>
    /\ nid = 0
    /\ id_buffer = <<>>
    /\ obs_buffer = <<>>
    /\ id_abs = <<>>
    /\ obs_abs = <<>>
    /\ gone_abs = <<>>
    /\ removed = <<>>
    /\ snap = <<<<>>, <<>>, <<>>, <<>>, <<>>, <<>>>>

\* line 88, lines 49-55: train_bkg reads TrainFrames frames from the capture
Train ==
    /\ pc = "start"
    /\ count >= TrainFrames
    /\ pc' = "setup"
    /\ UNCHANGED <<opts, arrays, tick, labels, evict, store, output, hist, nid,
                   storeHist, outputHist, removed, snap>>

\* lines 52-53: past the end of the video cap.read() returns (False, None),
\* and slicing None raises a TypeError that nothing catches
TrainFails ==
    /\ pc = "start"
    /\ count < TrainFrames
    /\ pc' = "crashed"
    /\ UNCHANGED <<opts, arrays, tick, labels, evict, store, output, hist, nid,
                   storeHist, outputHist, removed, snap>>

\* lines 101-108: current_frame is the position after the training,
\* final_frame = count - 1; np.arange of a negative number is empty
Setup ==
    /\ pc = "setup"
    /\ LET current_frame == TrainFrames
           final_frame == count - 1
       IN  IF final_frame <= 0
           THEN pc' = "noframes" /\ nticks' = nticks
           ELSE /\ pc' = "read"
                /\ nticks' = IF final_frame - current_frame > 0
                             THEN final_frame - current_frame ELSE 0
    /\ UNCHANGED <<framebuff, meanshift_length, pix_per_cm, denoise_thresh, count,
                   arrays, tick, labels, evict, store, output, hist, nid,
                   storeHist, outputHist, removed, snap>>

NextRun == Train \/ TrainFails \/ Setup \/ Step(FramesRun)
SpecRun == InitRun /\ [][NextRun]_vars

----------------------------------------------------------------------------
(* The array functions: lines 28-35 and 57-71 *)

\* An array is a record: rows, cols, and the value at every pixel <<r, c>>.
Pix(img) == (1..img.rows) \X (1..img.cols)

\* shapes of the arrays: a single pixel, single rows and columns, no interior,
\* and interiors of one and of two pixels
Shapes == {<<1, 1>>, <<1, 3>>, <<3, 1>>, <<2, 2>>, <<3, 3>>, <<3, 4>>}

\* the region ids of a label array, and the foreground value of a mask of
\* the background remover (created without shadow detection, line 87)
Values == {1, 2}
MaskValues == {255}

\* the arrays of a shape with at most MaxPix pixels other than 0
ArraysOf(h, w, V) ==
    LET P == (1..h) \X (1..w)
        Some == {S \in SUBSET P : Cardinality(S) <= MaxPix}
    IN  {[rows |-> h, cols |-> w,
          at |-> [p \in P |-> IF p \in DOMAIN f THEN f[p] ELSE 0]] :
             f \in UNION {[S -> V] : S \in Some}}

Masks == UNION {ArraysOf(s[1], s[2], MaskValues) : s \in Shapes}
LabelArrays == UNION {ArraysOf(s[1], s[2], Values) : s \in Shapes}

\* line 32: binc <= nthresh
IsNoise_Below(n, nthresh) == n < nthresh
IsNoise(n, nthresh) == n <= nthresh

\* scipy.ndimage label with its default structure: two pixels are neighbours
\* when they share an edge
Adjacent(p, q) ==
    \/ p[1] = q[1] /\ (p[2] = q[2] + 1 \/ q[2] = p[2] + 1)
    \/ p[2] = q[2] /\ (p[1] = q[1] + 1 \/ q[1] = p[1] + 1)

RECURSIVE Grow(_, _)
Grow(img, C) ==
    LET N == {q \in Pix(img) : img.at[q] # 0 /\ \E p \in C : Adjacent(p, q)}
    IN  IF N \subseteq C THEN C ELSE Grow(img, C \cup N)

\* position of a pixel in the flattened array
Ravel(img, p) == (p[1] - 1) * img.cols + p[2]

\* line 30: label(image), the features numbered in the order in which the
\* scan of the array meets them
label(img) ==
    LET fg == {p \in Pix(img) : img.at[p] # 0}
        first == [p \in fg |-> SetMin({Ravel(img, q) : q \in Grow(img, {p})})]
        heads == {first[p] : p \in fg}
        num == [x \in heads |-> Cardinality({y \in heads : y <= x})]
    IN  [p \in Pix(img) |-> IF p \in fg THEN num[first[p]] ELSE 0]

\* line 31: np.bincount of the flattened label array
bincount(img, labeled_array) ==
    [k \in 0..SetMax({labeled_array[p] : p \in Pix(img)}) |->
        Cardinality({p \in Pix(img) : labeled_array[p] = k})]

\* lines 28-35
denoise(img, nthresh) ==
    LET labeled_array == label(img)
        binc == bincount(img, labeled_array)
        noise_idx == {k \in DOMAIN binc : IsNoise(binc[k], nthresh)}
        mask == [p \in Pix(img) |-> labeled_array[p] \in noise_idx]
    IN  [img EXCEPT !.at = [p \in Pix(img) |-> IF mask[p] THEN 0 ELSE img.at[p]]]

\* the non-zero values of a list of pixels, in the order of the list
NonZero(img, ps) ==
    LET vals == [i \in 1..Len(ps) |-> img.at[ps[i]]]
    IN  SelectSeq(vals, LAMBDA v : v # 0)

\* image[image == val] = 0, if it reached the border pixels only
Zeroed_OnBorder(img, val) ==
    [img EXCEPT !.at = [p \in Pix(img) |->
        IF img.at[p] = val /\ (p[1] \in {1, img.rows} \/ p[2] \in {1, img.cols})
        THEN 0 ELSE img.at[p]]]

\* lines 64, 66, 68, 70: image[image == val] = 0
Zeroed(img, val) ==
    [img EXCEPT !.at = [p \in Pix(img) |-> IF img.at[p] = val THEN 0 ELSE img.at[p]]]

RECURSIVE ZeroEach(_, _)
ZeroEach(img, vals) ==
    IF vals = <<>> THEN img ELSE ZeroEach(Zeroed(img, Head(vals)), Tail(vals))

\* lines 57-71: the four lists are taken before the first pixel is cleared
remove_border_tracks(img) ==
    LET h == img.rows
        w == img.cols
        lb == NonZero(img, [r \in 1..h |-> <<r, 1>>])
        rb == NonZero(img, [r \in 1..h |-> <<r, w>>])
        tb == NonZero(img, [c \in 1..(w - 2) |-> <<1, c + 1>>])
        bb == NonZero(img, [c \in 1..(w - 2) |-> <<h, c + 1>>])
    IN  ZeroEach(ZeroEach(ZeroEach(ZeroEach(img, lb), rb), tb), bb)

\* thresholds around the sizes of the features
Thresholds == 0..MaxPix

InitImg ==
    /\ framebuff = 1
    /\ meanshift_length = 5
    /\ pix_per_cm = 100
    /\ \/ fn = "mask" /\ image \in Masks /\ denoise_thresh \in Thresholds
       \/ fn = "clusters" /\ image \in LabelArrays /\ denoise_thresh = 500
    /\ count = TrainFrames + 1
    /\ nticks = 0
    /\ tick = 0
    /\ pc = "read"
    /\ result = <<>>
    /\ labels = <<>>
    /\ evict = <<>>
    /\ len_buffer = <<>>
    /\ area_buffer = <<>>
    /\ frame_buffer = <<>>
    /\ mean_buffer = <<>>
    /\ seen = <<>>
    /\ len_abs = <<>>
    /\ area_abs = <<>>
    /\ frames_abs = <<>>
    /\ hist = <<>>
    /\ nid = 0
    /\ id_buffer = <<>>
    /\ obs_buffer = <<>>
    /\ id_abs = <<>>
    /\ obs_abs = <<>>
    /\ gone_abs = <<>>
    /\ removed = <<>>
    /\ snap = <<<<>>, <<>>, <<>>, <<>>, <<>>, <<>>>>

\* line 117: mask_proc = denoise(mask, denoise_thresh)
Denoise ==
    /\ fn = "mask"
    /\ fn' = "denoise"
    /\ result' = denoise(image, denoise_thresh)
    /\ UNCHANGED <<opts, image, tick, pc, labels, evict, store, output, hist, nid,
                   storeHist, outputHist, removed, snap>>

\* line 125: clusters = remove_border_tracks(clusters)
RemoveBorderTracks ==
    /\ fn = "clusters"
    /\ fn' = "remove_border_tracks"
    /\ result' = remove_border_tracks(image)
    /\ UNCHANGED <<opts, image, tick, pc, labels, evict, store, output, hist, nid,
                   storeHist, outputHist, removed, snap>>

NextImg == Denoise \/ RemoveBorderTracks
SpecImg == InitImg /\ [][NextImg]_vars

----------------------------------------------------------------------------
(* Vocabulary of the properties *)

\* the five buffers have n entries each
StoreLen(n) ==
    /\ Len(len_buffer) = n
    /\ Len(area_buffer) = n
    /\ Len(frame_buffer) = n
    /\ Len(mean_buffer) = n
    /\ Len(seen) = n

\* the five buffers have n entries each after the step
StoreLenNext(n) ==
    /\ Len(len_buffer') = n
    /\ Len(area_buffer') = n
    /\ Len(frame_buffer') = n
    /\ Len(mean_buffer') = n
    /\ Len(seen') = n

\* the track at index i of the store, all its attributes together
TrackAt(i) == <<len_buffer[i], area_buffer[i], frame_buffer[i], mean_buffer[i],
                seen[i], id_buffer[i]>>

\* the loop iterations in which the observations o were made
FramesOf(o) == {o[k].frame : k \in 1..Len(o)}

\* the loop iteration of the last frame that was not skipped (0: none yet)
LastProcessed ==
    SetMax({0} \cup {k \in 1..Len(hist) : \E i \in 1..Len(hist[k]) : hist[k][i].present})

\* a region is at the head of the label loop
AtRegion == pc = "assoc" /\ labels # <<>> /\ Head(labels).present

\* an index is at the head of the eviction loop
AtEviction == pc = "evict" /\ evict # <<>>

Distinct(s) == \A i, j \in 1..Len(s) : s[i] = s[j] => i = j

----------------------------------------------------------------------------
\* the frame of the object at rest, and the runs that read it in the frames
\* 1-4 and nothing in at least one frame after them
Resting == <<Region(PF, 50, 600)>>

C1_Scenario ==
    /\ framebuff = 1
    /\ pix_per_cm = 100
    /\ Len(hist) >= 5
    /\ \A k \in 1..Len(hist) : hist[k] = IF k <= 4 THEN Resting ELSE <<>>

(* C1.  As claimed: when the loop reads a single region (stable centroid,  *)
(* area 600, length 50) in its frames 1-4 and no region in the frames      *)
(* after, with frame_buffer_threshold = 1 and pixels_per_cm = 100, the     *)
(* completed run has emitted exactly one record, with frames_seen = 4,     *)
(* length_cm = 1/2 and area_cm2 = 3/50.                                    *)
C1_OneRecord ==
    (pc = "done" /\ C1_Scenario) =>
        /\ frames_abs = <<4>>
        /\ len_abs = <<<<1, 2>>>>
        /\ area_abs = <<<<3, 50>>>>

\* the same runs with one more frame, holding a region elsewhere
C1_ScenarioThenOther ==
    /\ framebuff = 1
    /\ pix_per_cm = 100
    /\ Len(hist) >= 5
    /\ \A k \in 1..Len(hist) :
           hist[k] = IF k <= 4 THEN Resting
                     ELSE IF k < Len(hist) THEN <<>>
                     ELSE <<Region(P0, 10, 100)>>

(* C1, amended.  In that run no record is emitted: frames without          *)
(* foreground skip the eviction loop, so the track is still in the store   *)
(* (frames_seen = 4, length 50, area 600) when the loop ends.  The record  *)
(* (4, 1/2, 3/50) is emitted once a later frame holds a region that does   *)
(* not match the track.                                                    *)
C1_NoRecordWhileSkipped ==
    /\ (pc = "done" /\ C1_Scenario) =>
           /\ frames_abs = <<>>
           /\ len_abs = <<>>
           /\ area_abs = <<>>
           /\ frame_buffer = <<4>>
           /\ len_buffer = <<50>>
           /\ area_buffer = <<600>>
    /\ (pc = "done" /\ C1_ScenarioThenOther) =>
           /\ frames_abs = <<4>>
           /\ len_abs = <<<<1, 2>>>>
           /\ area_abs = <<<<3, 50>>>>

\* the run is complete: four frames with the region, then a frame without
C1_Witness == pc = "done" /\ C1_Scenario

----------------------------------------------------------------------------
\* what C2 asks of one step
C2_Step ==
    (AtRegion /\ Matches(Head(labels).mean) # {}) =>
        LET r == Head(labels)
            f == SetMin(Matches(r.mean))
        IN  /\ StoreLenNext(Len(seen))
            /\ seen'[f] = 1
            /\ mean_buffer'[f] = r.mean
            /\ frame_buffer'[f] = frame_buffer[f] + 1
            /\ len_buffer'[f] = IF r.length > len_buffer[f] THEN r.length
                                ELSE len_buffer[f]
            /\ area_buffer'[f] = IF r.area > area_buffer[f] THEN r.area
                                 ELSE area_buffer[f]
            /\ \A j \in 1..Len(seen) : j # f => TrackAt(j)' = TrackAt(j)

(* C2.  For each region, only the first (lowest-index) track whose stored  *)
(* centroid is within meanshift_threshold is the match: that one track is  *)
(* marked seen, gets the region's centroid, has its maxima raised and its  *)
(* frames_seen incremented, and every other track is left unchanged.       *)
C2_FirstMatchOnly == [][C2_Step]_vars

----------------------------------------------------------------------------
(* C3.  frames_seen of every track in the store equals the number of       *)
(* distinct processed frames in which the track was created or matched,    *)
(* and every emitted record belongs to a track that was observed in more   *)
(* than frame_buffer_threshold distinct frames.                            *)

C3_FramesSeenCountsFrames ==
    /\ \A i \in 1..Len(frame_buffer) :
           frame_buffer[i] = Cardinality(FramesOf(obs_buffer[i]))
    /\ \A k \in 1..Len(frames_abs) :
           /\ frames_abs[k] = Cardinality(FramesOf(obs_abs[k]))
           /\ Cardinality(FramesOf(obs_abs[k])) > framebuff

----------------------------------------------------------------------------
\* what C4 asks of one step
C4_Step ==
    AtEviction =>
        LET idx == Head(evict)
        IN  /\ (frame_buffer[idx] > framebuff) =>
                   /\ frames_abs' = Append(frames_abs, frame_buffer[idx])
                   /\ Len(len_abs') = Len(len_abs) + 1
                   /\ Len(area_abs') = Len(area_abs) + 1
            /\ (frame_buffer[idx] <= framebuff) => output' = output
            /\ StoreLenNext(Len(seen) - 1)
            /\ id_buffer[idx] \notin Range(id_buffer')

(* C4.  When an unseen track is evicted, a record is emitted if and only   *)
(* if its frames_seen is strictly greater than frame_buffer_threshold; in  *)
(* both cases the track is removed from the store.                         *)
C4_MinimumDuration == [][C4_Step]_vars

\* a track was evicted at exactly the threshold without a record, another one
\* frame above it with a record
C4_Witness ==
    \E a, b \in 1..Len(removed) :
        /\ removed[a].frames = framebuff
        /\ removed[a].after = removed[a].before
        /\ removed[b].frames = framebuff + 1
        /\ removed[b].after = removed[b].before + 1

----------------------------------------------------------------------------
\* what C5 asks of one step
C5_Step ==
    /\ (/\ AtRegion
        /\ \E i \in 1..Len(mean_buffer) :
               Dist2(mean_buffer[i], Head(labels).mean)
                   < meanshift_length * meanshift_length)
       => /\ StoreLenNext(Len(seen))
          /\ id_buffer' = id_buffer
          /\ nid' = nid
    /\ (/\ AtRegion
        /\ Len(labels) = 1
        /\ StoreLen(1)
        /\ frame_buffer[1] = 1
        /\ seen[1] = 0
        /\ Dist2(mean_buffer[1], Head(labels).mean)
               < meanshift_length * meanshift_length)
       => /\ StoreLenNext(1)
          /\ frame_buffer'[1] = 2
          /\ seen'[1] = 1
          /\ output' = output
    /\ (/\ pc = "assoc"
        /\ labels = <<>>
        /\ StoreLen(1)
        /\ seen[1] = 1)
       => evict' = <<>>
    /\ Distinct(id_abs')

(* C5.  A region within meanshift_threshold of a stored centroid appends   *)
(* no new track.  When the store holds only the track created by the       *)
(* previous processed frame and the frame being processed holds one        *)
(* region, within meanshift_threshold of that track, the store then holds  *)
(* one track with frames_seen = 2, the eviction loop of that frame has     *)
(* nothing to visit, and no two records ever come from one track.          *)
C5_TrackContinuation == [][C5_Step]_vars

\* the frame after the one that created the track has been processed: one
\* track, seen in two frames, nothing removed by that frame
C5_Witness ==
    /\ pc = "read"
    /\ Len(hist) >= 2
    /\ LastProcessed = Len(hist)
    /\ Len(hist[Len(hist)]) = 1
    /\ StoreLen(1)
    /\ frame_buffer[1] = 2
    /\ FramesOf(obs_buffer[1]) = {Len(hist) - 1, Len(hist)}
    /\ \A k \in 1..Len(removed) : removed[k].tick # Len(hist)

----------------------------------------------------------------------------
(* C6.  At the end of every processed frame every track that was not       *)
(* matched by a region of that frame has been removed from the store:      *)
(* between frames every track in the store has its seen flag set and was   *)
(* created or matched in the last processed frame.                         *)

C6_UnmatchedEvicted ==
    (pc = "read" \/ pc = "done") =>
        \A i \in 1..Len(seen) :
            /\ seen[i] = 1
            /\ LastProcessed \in FramesOf(obs_buffer[i])

\* a frame has been processed that removed two tracks and kept another
C6_Witness ==
    /\ pc = "read"
    /\ Len(seen) >= 1
    /\ \E a, b \in 1..Len(removed) :
           a # b /\ removed[a].tick = LastProcessed /\ removed[b].tick = LastProcessed

----------------------------------------------------------------------------
\* what C7 asks of one step
C7_Step ==
    /\ (output' # output) =>
           /\ AtEviction
           /\ LET idx == Head(evict)
              IN  /\ seen[idx] = 0
                  /\ (tick + 1) \notin FramesOf(obs_buffer[idx])
                  /\ id_abs' = Append(id_abs, id_buffer[idx])
                  /\ id_buffer[idx] \notin Range(id_buffer')
                  /\ frames_abs' = Append(frames_abs, frame_buffer[idx])
                  /\ Len(len_abs') = Len(len_abs) + 1
                  /\ Len(area_abs') = Len(area_abs) + 1
    /\ Distinct(id_abs')
    /\ Range(id_abs') \cap Range(id_buffer') = {}

(* C7.  A record is appended to the output only in a processed frame in    *)
(* which its track was not matched, in the same step that removes that     *)
(* track from the store; each track produces at most one record, and no    *)
(* track in the store has a record.                                        *)
C7_EmitOnceOnDisappearance == [][C7_Step]_vars

\* two records have been emitted while another track stays in the store
C7_Witness ==
    /\ Len(frames_abs) >= 2
    /\ Len(seen) >= 1
    /\ pc = "read"

----------------------------------------------------------------------------
\* the largest length and the largest area among the observations o
MaxLength(o) == SetMax({o[k].length : k \in 1..Len(o)})
MaxAreaOf(o) == SetMax({o[k].area : k \in 1..Len(o)})

(* C8.  max_extent and max_area of every track equal the maximum of the    *)
(* lengths and areas of all regions that created or matched it so far,     *)
(* and a record is built from these maxima: a track matched with lengths   *)
(* 10, 40, 25 and areas 100, 80, 150 is finalized with 40 and 150.         *)
C8_MaxAggregation ==
    /\ \A i \in 1..Len(obs_buffer) :
           /\ len_buffer[i] = MaxLength(obs_buffer[i])
           /\ area_buffer[i] = MaxAreaOf(obs_buffer[i])
    /\ \A k \in 1..Len(obs_abs) :
           /\ len_abs[k] = Ratio(MaxLength(obs_abs[k]), pix_per_cm)
           /\ area_abs[k] = Ratio(MaxAreaOf(obs_abs[k]), pix_per_cm * pix_per_cm)

\* the record of a track observed with lengths 10, 40, 25 and areas 100, 80, 150
C8_Witness ==
    \E k \in 1..Len(obs_abs) :
        /\ Len(obs_abs[k]) = 3
        /\ [j \in 1..3 |-> obs_abs[k][j].length] = <<10, 40, 25>>
        /\ [j \in 1..3 |-> obs_abs[k][j].area] = <<100, 80, 150>>
        /\ len_abs[k] = Ratio(40, pix_per_cm)
        /\ area_abs[k] = Ratio(150, pix_per_cm * pix_per_cm)

----------------------------------------------------------------------------
\* the entries of s at the indices K, in order
KeepSeq(s, K) == [j \in 1..Cardinality(K) |-> s[Ascending(K)[j]]]

\* the indices of the store, as it was when the eviction loop started, that are
\* seen or still to be visited
Kept == {i \in 1..Len(snap[5]) : snap[5][i] = 1 \/ i \in Range(evict)}

(* C9.  When unseen tracks are removed in one frame, exactly the unseen    *)
(* tracks are removed and every surviving track keeps its centroid,        *)
(* max_extent, max_area, frames_seen and seen flag together, in the same   *)
(* relative order as before.                                               *)
C9_IndexRemovalSafety ==
    pc # "assoc" =>
        /\ len_buffer = KeepSeq(snap[1], Kept)
        /\ area_buffer = KeepSeq(snap[2], Kept)
        /\ frame_buffer = KeepSeq(snap[3], Kept)
        /\ mean_buffer = KeepSeq(snap[4], Kept)
        /\ seen = KeepSeq(snap[5], Kept)
        /\ id_buffer = KeepSeq(snap[6], Kept)

\* indices 1, 3, 4 (from 0) of five tracks have been removed
C9_Witness ==
    /\ pc = "evict"
    /\ evict = <<>>
    /\ snap[5] = <<1, 0, 1, 0, 0>>
    /\ id_buffer = <<snap[6][1], snap[6][3]>>
    /\ Len(removed) >= 3

----------------------------------------------------------------------------
(* C10.  The five track buffers have the same length after each append of  *)
(* a new track, each update of a matched track, each reset of the seen     *)
(* flags and each removal of one index.                                    *)

C10_ParallelLengths == StoreLen(Len(seen))

\* a store of two tracks, reached after an append, an update, a reset and a removal
C10_Witness ==
    /\ Len(seen) >= 2
    /\ Len(removed) >= 1
    /\ \E i \in 1..Len(seen) : frame_buffer[i] >= 2
    /\ pc = "assoc"

----------------------------------------------------------------------------
\* the frame read by the step has no label with pixels
ReadsEmptyFrame ==
    /\ pc = "read"
    /\ Len(hist') = Len(hist) + 1
    /\ \A i \in 1..Len(hist'[Len(hist')]) : ~hist'[Len(hist')][i].present

\* what C11 asks of one step
C11_Step ==
    ReadsEmptyFrame =>
        /\ store' = store
        /\ output' = output
        /\ id_buffer' = id_buffer
        /\ removed' = removed
        /\ pc' = "read"
        /\ tick' = tick + 1

(* C11.  A frame that has no foreground after denoising, or none after     *)
(* border removal, leaves the five buffers (seen flags included) and the   *)
(* output lists unchanged: no track is evicted or emitted by it, and the   *)
(* loop goes on to the next frame.                                         *)
C11_EmptyFrameSkip == [][C11_Step]_vars

\* a track matched before and after two frames without foreground, the first
\* empty after denoising, the second after border removal
C11_Witness ==
    \E i \in 1..Len(obs_buffer) :
        \E a \in FramesOf(obs_buffer[i]) :
            /\ (a + 3) \in FramesOf(obs_buffer[i])
            /\ hist[a + 1] = <<>>
            /\ hist[a + 2] = <<Filtered>>

----------------------------------------------------------------------------
\* what C12 asks of one step
C12_Step ==
    AtRegion =>
        LET r == Head(labels)
            OnOrInside == {i \in 1..Len(mean_buffer) :
                              Dist2(mean_buffer[i], r.mean)
                                  <= meanshift_length * meanshift_length}
        IN  /\ (OnOrInside # {}) =>
                   /\ nid' = nid
                   /\ StoreLenNext(Len(seen))
                   /\ \E i \in OnOrInside : seen'[i] = 1 /\ mean_buffer'[i] = r.mean
            /\ (OnOrInside = {}) => StoreLenNext(Len(seen) + 1)

(* C12.  A region whose centroid lies at a distance of at most             *)
(* meanshift_threshold from a track's stored centroid, the distance equal  *)
(* to the threshold included, matches that track and creates no new       *)
(* track; only a distance strictly greater than the threshold fails to     *)
(* match.                                                                  *)
C12_ThresholdInclusive == [][C12_Step]_vars

----------------------------------------------------------------------------
\* s is the beginning of t
Prefix(s, t) == Len(s) <= Len(t) /\ SubSeq(t, 1, Len(s)) = s

\* the loop iteration in which the track behind record k left the store
Gone(k) == (CHOOSE e \in Range(removed) : e.id = id_abs[k]).tick

\* what C13 asks of one step
C13_Step ==
    /\ Prefix(len_abs, len_abs')
    /\ Prefix(area_abs, area_abs')
    /\ Prefix(frames_abs, frames_abs')
    /\ Prefix(id_abs, id_abs')
    /\ \A a, b \in 1..Len(id_abs') : a < b => Gone(a)' <= Gone(b)'

(* C13.  The output lists are append-only: a record is never changed,      *)
(* moved or removed by a later step.  They are ordered by the frame of     *)
(* finalization: a record precedes another only if its track left the      *)
(* store in a frame no later, whichever track was created first.           *)
C13_OutputOrder == [][C13_Step]_vars

\* two records: the first belongs to the track created later, which left the
\* store in an earlier frame
C13_Witness ==
    \E a, b \in 1..Len(id_abs) :
        a < b /\ id_abs[a] > id_abs[b] /\ Gone(a) < Gone(b)

----------------------------------------------------------------------------
\* the fraction q has the value n/d (d > 0)
IsQuotient(q, n, d) == q[2] > 0 /\ q[1] * d = n * q[2]

\* what C14 asks of one step
C14_Step ==
    (AtEviction /\ frame_buffer[Head(evict)] > framebuff) =>
        LET idx == Head(evict)
            k == Len(frames_abs')
        IN  /\ k = Len(frames_abs) + 1
            /\ frames_abs'[k] = frame_buffer[idx]
            /\ IsQuotient(len_abs'[k], len_buffer[idx], pix_per_cm)
            /\ IsQuotient(area_abs'[k], area_buffer[idx], pix_per_cm * pix_per_cm)
            /\ (pix_per_cm = 120 /\ len_buffer[idx] = 120) => len_abs'[k] = <<1, 1>>
            /\ (pix_per_cm = 120 /\ area_buffer[idx] = 14400) => area_abs'[k] = <<1, 1>>

(* C14.  The record emitted for a finalized track carries frames_seen      *)
(* unchanged, length_cm = max_extent / pixels_per_cm and area_cm2 =        *)
(* max_area / pixels_per_cm^2, from the track's values at the finalization *)
(* frame; with pixels_per_cm = 120, max_extent = 120 gives length_cm = 1   *)
(* and max_area = 14400 gives area_cm2 = 1.                                *)
C14_UnitConversion == [][C14_Step]_vars

\* with 120 pixels per cm, a record of length 1 and area 1 and a record of
\* length 1/2 and area 1/4
C14_Witness ==
    /\ pix_per_cm = 120
    /\ \E j, k \in 1..Len(len_abs) :
           /\ len_abs[j] = <<1, 1>> /\ area_abs[j] = <<1, 1>>
           /\ len_abs[k] = <<1, 2>> /\ area_abs[k] = <<1, 4>>

----------------------------------------------------------------------------
\* the label loop is at a region id that owns no pixels after filtering
AtFilteredRegion == pc = "assoc" /\ labels # <<>> /\ ~Head(labels).present

\* what C19 asks of one step
C19_Step ==
    AtFilteredRegion =>
        /\ store' = store
        /\ id_buffer' = id_buffer
        /\ obs_buffer' = obs_buffer
        /\ nid' = nid
        /\ output' = output
        /\ labels' = Tail(labels)
        /\ pc' = "assoc"

(* C19.  A region id that has no pixels left after the filtering is        *)
(* skipped: no track is matched against it, no track is updated by it and  *)
(* no track is created for it.                                             *)
C19_FilteredRegionSkipped == [][C19_Step]_vars

\* a track that was in the store when a frame whose first region id was
\* filtered out was read, and that left the store in that frame
C19_Witness ==
    \E i \in 1..Len(removed) :
        /\ removed[i].tick <= Len(hist)
        /\ hist[removed[i].tick] # <<>>
        /\ ~hist[removed[i].tick][1].present
        /\ \E a \in FramesOf(removed[i].obs) : a < removed[i].tick

----------------------------------------------------------------------------
\* the removals from the store of tracks that had been seen in more frames
\* than the threshold
LongRemovals == {i \in 1..Len(removed) : removed[i].frames > framebuff}

(* C20.  Tracks still in the store when the frame loop ends are discarded  *)
(* without a record, whatever their frames_seen: the output holds exactly  *)
(* the records appended by the eviction sweeps, one for every track that   *)
(* was removed from the store with frames_seen above the threshold, and    *)
(* none for a track that is in the store, also after the loop has ended.   *)
C20_LeftoverTracksDiscarded ==
    /\ Len(frames_abs) = Cardinality(LongRemovals)
    /\ Len(len_abs) = Len(frames_abs)
    /\ Len(area_abs) = Len(frames_abs)
    /\ Len(id_abs) = Len(frames_abs)
    /\ Distinct(id_abs)
    /\ \A k \in 1..Len(id_abs) :
           \E i \in LongRemovals :
               /\ removed[i].id = id_abs[k]
               /\ removed[i].frames = frames_abs[k]
               /\ removed[i].after = k
    /\ \A i \in 1..Len(id_buffer) : id_buffer[i] \notin Range(id_abs)

\* the loop has ended with a record in the output and with a track in the
\* store that has been seen in more frames than the threshold
C20_Witness ==
    /\ pc = "done"
    /\ frames_abs # <<>>
    /\ \E i \in 1..Len(frame_buffer) : frame_buffer[i] > framebuff

----------------------------------------------------------------------------
\* the run has ended, normally or not
Ended == pc \in {"done", "crashed", "noframes"}

(* C15.  After the warm-up frames every frame of the video is passed       *)
(* through the loop exactly once, in arrival order, and the run ends       *)
(* normally only after the last frame of the video has been processed: at  *)
(* the normal end the frames read by the training and by the loop are all  *)
(* the frames of the video.                                                *)
C15_RunToExhaustion ==
    /\ pc \in {"read", "assoc", "evict", "done"} =>
           /\ TrainFrames + Len(hist) <= count
           /\ Len(hist) \in {tick, tick + 1}
    /\ pc = "done" => TrainFrames + Len(hist) = count

(* C16.  An existing video file with zero usable frames ends in the        *)
(* 'video has no frames' error, reached after the frame count is read,     *)
(* with no frame processed and no output written, and in no other failure. *)
C16_NoFramesError ==
    /\ (count = 0 /\ Ended) => pc = "noframes"
    /\ count = 0 => hist = <<>> /\ frames_abs = <<>>

----------------------------------------------------------------------------
\* the pixels of the first and last row and of the first and last column
OnBorder(img, p) ==
    \/ p[1] = 1 \/ p[1] = img.rows
    \/ p[2] = 1 \/ p[2] = img.cols

\* the region of an id: every pixel that carries it
RegionOf(img, v) == {p \in Pix(img) : img.at[p] = v}

TouchesBorder(img, v) == \E p \in RegionOf(img, v) : OnBorder(img, p)

(* C17.  After remove_border_tracks every pixel of every region that has   *)
(* at least one pixel in row 0, the last row, column 0 or the last column  *)
(* (corners included) is 0, and every pixel of every region with no border *)
(* pixel keeps its original id; the background stays 0 and the shape is    *)
(* kept.                                                                   *)
C17_BorderRemoval ==
    fn = "remove_border_tracks" =>
        /\ result.rows = image.rows /\ result.cols = image.cols
        /\ \A p \in Pix(image) :
               result.at[p] = IF TouchesBorder(image, image.at[p]) THEN 0
                              ELSE image.at[p]

\* a region with a pixel on the border and a pixel inside was removed whole
\* and a region inside the border was kept
C17_Witness ==
    /\ fn = "remove_border_tracks"
    /\ \E v, u \in Values :
        /\ \E p, q \in RegionOf(image, v) : OnBorder(image, p) /\ ~OnBorder(image, q)
        /\ RegionOf(image, u) # {}
        /\ ~TouchesBorder(image, u)
        /\ RegionOf(result, u) = RegionOf(image, u)
        /\ \A p \in RegionOf(image, v) : result.at[p] = 0

----------------------------------------------------------------------------
\* a set of foreground pixels that no edge leads out of
Closed(img, C) ==
    \A p \in C : \A q \in Pix(img) : (img.at[q] # 0 /\ Adjacent(p, q)) => q \in C

Foreground(img) == {p \in Pix(img) : img.at[p] # 0}

\* the connected component of a foreground pixel: the least closed set with it
Component(img, p) ==
    CHOOSE C \in SUBSET Foreground(img) :
        /\ p \in C
        /\ Closed(img, C)
        /\ \A D \in SUBSET C : (p \in D /\ Closed(img, D)) => D = C

(* C18.  After denoise every connected component with pixel count <=       *)
(* min_pixel_count is entirely zeroed and every component with pixel count *)
(* > min_pixel_count is preserved with all its pixels unchanged;           *)
(* background pixels stay 0 whatever the background pixel count is.        *)
C18_DenoiseThreshold ==
    fn = "denoise" =>
        /\ result.rows = image.rows /\ result.cols = image.cols
        /\ \A p \in Pix(image) :
               result.at[p] =
                   IF image.at[p] = 0 THEN 0
                   ELSE IF Cardinality(Component(image, p)) <= denoise_thresh THEN 0
                   ELSE image.at[p]

\* a component of exactly the threshold's size was removed, a component of one
\* pixel more was kept, and the two touch at a corner only
C18_Witness ==
    /\ fn = "denoise"
    /\ denoise_thresh >= 1
    /\ \E p, q \in Foreground(image) :
        /\ Cardinality(Component(image, p)) = denoise_thresh
        /\ Cardinality(Component(image, q)) = denoise_thresh + 1
        /\ \E a \in Component(image, p), b \in Component(image, q) :
               a[1] # b[1] /\ a[2] # b[2] /\ a[1] - b[1] \in {-1, 1} /\ a[2] - b[2] \in {-1, 1}
        /\ \A a \in Component(image, p) : result.at[a] = 0
        /\ \A b \in Component(image, q) : result.at[b] = image.at[b]

====
